---- MODULE Spec2Model ----
(***************************************************************************)
(* Model of scripts/setup/silabs/validate_efr32_sdk_paths.py: the path     *)
(* expression resolver, the path validator, the validation driver          *)
(* run_gni_validation and the exit status of main.                         *)
(*                                                                         *)
(* A Python str is a sequence of one-character strings.  Variable names    *)
(* are abbreviated to one letter:                                          *)
(*   r = chip_root, b = silabs_board, g = slc_gen_path, u = a name no      *)
(*   binding map defines.                                                  *)
(* Python's None is the one-element sequence None, which is no string of   *)
(* characters.                                                             *)
(***************************************************************************)
EXTENDS Integers, Sequences, FiniteSets, TLC

VARIABLES
    \* run_gni_validation: its arguments, the filesystem, its locals
    content, board_combos, skip_slc_gen, skip_conditional, disk,
    expressions, idx, seen, missing, checked, unresolved,
    conditional_skipped, calls, pc,
    \* main: its arguments, what it finds on disk, its locals, its result
    m_pc, gni_exists, siwx917_exists, no_siwx917, wifi_sdk_root,
    all_missing, total_checked, total_unresolved, total_conditional_skipped,
    runs, reports, exit_status,
    \* resolve_path applied to one input
    r_pc, r_expr, r_vars, r_out, r_out2,
    \* validate_path applied to one input
    v_pc, v_resolved, v_context, v_disk, v_res

resolveVars == <<r_pc, r_expr, r_vars, r_out, r_out2>>
validateVars == <<v_pc, v_resolved, v_context, v_disk, v_res>>
runInputs == <<content, board_combos, skip_slc_gen, skip_conditional, disk>>
runLocals == <<expressions, idx, seen, missing, checked, unresolved,
               conditional_skipped, calls>>
runVars == <<runInputs, runLocals, pc>>
mainInputs == <<gni_exists, siwx917_exists, no_siwx917, wifi_sdk_root>>
mainLocals == <<all_missing, total_checked, total_unresolved,
                total_conditional_skipped, runs, reports, exit_status>>
mainVars == <<m_pc, mainInputs, mainLocals>>
vars == <<runVars, mainVars, resolveVars, validateVars, mainVars>>

(***************************************************************************)
(* Bounds of the model.                                                    *)
(***************************************************************************)
MaxParts == 3

None == <<"<None>">>

NoMessage == [text |-> "", path |-> <<>>]

(***************************************************************************)
(* The value of each group of variables in the specifications that do not  *)
(* use it.                                                                 *)
(***************************************************************************)
RunIdle ==
    /\ pc = "idle"
    /\ content = <<>>
    /\ board_combos = <<>>
    /\ skip_slc_gen = FALSE
    /\ skip_conditional = FALSE
    /\ disk = <<>>
    /\ expressions = <<>>
    /\ idx = 0
    /\ seen = {}
    /\ missing = <<>>
    /\ checked = 0
    /\ unresolved = 0
    /\ conditional_skipped = 0
    /\ calls = <<>>

MainIdle ==
    /\ m_pc = "idle"
    /\ gni_exists = FALSE
    /\ siwx917_exists = FALSE
    /\ no_siwx917 = FALSE
    /\ wifi_sdk_root = FALSE
    /\ all_missing = <<>>
    /\ total_checked = 0
    /\ total_unresolved = 0
    /\ total_conditional_skipped = 0
    /\ runs = <<>>
    /\ reports = {}
    /\ exit_status = 0

ResolveIdle ==
    /\ r_pc = "idle"
    /\ r_expr = <<>>
    /\ r_vars = <<>>
    /\ r_out = [res |-> None, subs |-> 0, out |-> <<>>]
    /\ r_out2 = None

ValidateIdle ==
    /\ v_pc = "idle"
    /\ v_resolved = <<>>
    /\ v_context = "source"
    /\ v_disk = <<>>
    /\ v_res = [ok |-> FALSE, msg |-> NoMessage]

(***************************************************************************)
(* String helpers: Python's `in`, str.endswith, str.replace.               *)
(***************************************************************************)
HasSubAt(s, t, i) ==
    /\ i >= 1
    /\ i + Len(t) - 1 <= Len(s)
    /\ \A k \in 1..Len(t) : s[i + k - 1] = t[k]

HasSub(s, t) == \E i \in 1..(Len(s) + 1) : HasSubAt(s, t, i)

EndsWith(s, t) == Len(t) <= Len(s) /\ HasSubAt(s, t, Len(s) - Len(t) + 1)

StartsWith(s, t) == HasSubAt(s, t, 1)

\* s.replace("//", "/"): non-overlapping occurrences, left to right, one pass.
RECURSIVE ReplaceDoubleSlash(_)
ReplaceDoubleSlash(s) ==
    IF Len(s) >= 2 /\ s[1] = "/" /\ s[2] = "/"
    THEN <<"/">> \o ReplaceDoubleSlash(SubSeq(s, 3, Len(s)))
    ELSE IF s = <<>> THEN <<>>
    ELSE <<s[1]>> \o ReplaceDoubleSlash(Tail(s))

RECURSIVE Concat(_)
Concat(ss) == IF ss = <<>> THEN <<>> ELSE Head(ss) \o Concat(Tail(ss))

SeqsUpTo(S, n) == UNION { [1..k -> S] : k \in 0..n }

Placeholder(name) == <<"$", "{">> \o name \o <<"}">>

(***************************************************************************)
(* re.search(r"\$\{([^}]+)\}", out): the leftmost position i at which      *)
(* "${" is followed by one or more characters other than "}" and then      *)
(* "}".  0 when there is no match.                                         *)
(***************************************************************************)
MatchesAt(out, i) ==
    /\ HasSubAt(out, <<"$", "{">>, i)
    /\ i + 2 <= Len(out)
    /\ out[i + 2] # "}"
    /\ \E j \in (i + 3)..Len(out) : out[j] = "}"

MatchStart(out) ==
    IF \E i \in 1..Len(out) : MatchesAt(out, i)
    THEN CHOOSE i \in 1..Len(out) :
             MatchesAt(out, i) /\ \A k \in 1..(i - 1) : ~MatchesAt(out, k)
    ELSE 0

\* The index of the "}" that closes the match starting at i.
MatchEnd(out, i) ==
    CHOOSE j \in (i + 3)..Len(out) :
        out[j] = "}" /\ \A k \in (i + 2)..(j - 1) : out[k] # "}"

MatchKey(out, i) == SubSeq(out, i + 2, MatchEnd(out, i) - 1)

\* out.replace(m.group(0), value, 1): the first occurrence of the matched
\* text is the leftmost match itself.
ReplaceMatch(out, i, value) ==
    SubSeq(out, 1, i - 1) \o value \o SubSeq(out, MatchEnd(out, i) + 1, Len(out))

max_iter == 20

resolve_finish_keeps_placeholder(out) == ReplaceDoubleSlash(out)

\* Lines 131-133: the test after the loop and the normalisation on success.
resolve_finish(out) ==
    IF HasSub(out, <<"$", "{">>) THEN None ELSE ReplaceDoubleSlash(out)

resolve_missing_key_kept(out, i) == resolve_finish(ReplaceMatch(out, i, <<>>))

\* Lines 128-129: a key that is not in vars_dict.
resolve_missing_key(out, i) == None

loop_continues_once_more(out, n) ==
    HasSub(out, <<"$", "{">>) /\ max_iter + 1 - n > 0

\* Line 122: the loop test; max_iter - n is the value of the countdown.
loop_continues(out, n) ==
    HasSub(out, <<"$", "{">>) /\ max_iter - n > 0

\* Lines 122-130: the substitution loop; n counts the replacements made and
\* out is the text the loop ended with.
RECURSIVE resolve_loop(_, _, _)
resolve_loop(out, vars_dict, n) ==
    IF loop_continues(out, n)
    THEN LET i == MatchStart(out) IN
         IF i = 0
         THEN [res |-> resolve_finish(out), subs |-> n, out |-> out]
         ELSE IF MatchKey(out, i) \notin DOMAIN vars_dict
              THEN [res |-> resolve_missing_key(out, i), subs |-> n,
                    out |-> out]
              ELSE resolve_loop(ReplaceMatch(out, i, vars_dict[MatchKey(out, i)]),
                                vars_dict, n + 1)
    ELSE [res |-> resolve_finish(out), subs |-> n, out |-> out]

resolve_run(expr, vars_dict) == resolve_loop(expr, vars_dict, 0)

resolve_path(expr, vars_dict) == resolve_run(expr, vars_dict).res

(***************************************************************************)
(* pathlib.Path(s): the components of s between "/" separators, without    *)
(* the empty ones and the "." ones, joined by single separators.  The      *)
(* filesystem is looked up by this text.                                   *)
(***************************************************************************)
RECURSIVE SplitSlash(_, _)
SplitSlash(s, cur) ==
    IF s = <<>> THEN <<cur>>
    ELSE IF s[1] = "/" THEN <<cur>> \o SplitSlash(Tail(s), <<>>)
    ELSE SplitSlash(Tail(s), Append(cur, s[1]))

PathParts(s) ==
    SelectSeq(SplitSlash(s, <<>>), LAMBDA c : c # <<>> /\ c # <<".">>)

RECURSIVE JoinSlash(_)
JoinSlash(parts) ==
    IF parts = <<>> THEN <<>>
    ELSE IF Len(parts) = 1 THEN parts[1]
    ELSE parts[1] \o <<"/">> \o JoinSlash(Tail(parts))

is_absolute(s) == StartsWith(s, <<"/">>)

Path(s) ==
    IF is_absolute(s) THEN <<"/">> \o JoinSlash(PathParts(s))
    ELSE IF PathParts(s) = <<>> THEN <<".">>
    ELSE JoinSlash(PathParts(s))

\* Lines 194-196: p = Path(resolved), joined with base_path when relative.
JoinBase(base_path, resolved) ==
    IF is_absolute(resolved) THEN Path(resolved)
    ELSE Path(base_path \o <<"/">> \o resolved)

(***************************************************************************)
(* The filesystem: a function from the paths that exist to the kind of     *)
(* the entry.  "other" is an entry that is neither a regular file nor a    *)
(* directory (a FIFO, a socket, a device node).                            *)
(***************************************************************************)
Kinds == { "file", "dir", "other" }

exists(fs, p) == p \in DOMAIN fs
is_dir(fs, p) == p \in DOMAIN fs /\ fs[p] = "dir"
is_file(fs, p) == p \in DOMAIN fs /\ fs[p] = "file"

LIB_EXT == <<".", "a">>
SOURCE_EXTENSIONS ==
    << <<".", "c">>, <<".", "c", "p", "p">>, <<".", "h">>, <<".", "S">>,
       <<".", "h", "p", "p">> >>

HasFileExtension(path_str) ==
    \/ EndsWith(path_str, LIB_EXT)
    \/ \E k \in 1..Len(SOURCE_EXTENSIONS) : EndsWith(path_str, SOURCE_EXTENSIONS[k])

\* Lines 171-182.
is_file_path(path_str, context) ==
    IF context = "include_dir" THEN FALSE
    ELSE IF context = "lib" THEN TRUE
    ELSE IF context = "source" THEN HasFileExtension(path_str)
    ELSE HasFileExtension(path_str)

\* Lines 185-204.
validate_path(resolved, context, base_path, fs) ==
    LET p == JoinBase(base_path, resolved)
        expect_file == is_file_path(resolved, context)
    IN  IF exists(fs, p)
        THEN IF expect_file /\ is_dir(fs, p)
             THEN [ok |-> FALSE,
                   msg |-> [text |-> "expected file, found directory", path |-> p]]
             ELSE IF ~expect_file /\ is_file(fs, p)
             THEN [ok |-> FALSE,
                   msg |-> [text |-> "expected directory, found file", path |-> p]]
             ELSE [ok |-> TRUE, msg |-> NoMessage]
        ELSE [ok |-> FALSE, msg |-> [text |-> "missing", path |-> p]]

\* The repository root every relative path is joined with.
chip_root == <<"/", "R">>

Contexts == { "include_dir", "lib", "source" }

(***************************************************************************)
(* Inputs of the validator specification.                                  *)
(***************************************************************************)
PathSegments ==
    { <<"/">>, <<"x">>, <<"c">>, <<".", "a">>, <<".", "c">>,
      <<".", "c", "p", "p">>, <<".", "h">>, <<".", "S">>,
      <<".", "h", "p", "p">> }

ValidatePaths == { Concat(ss) : ss \in SeqsUpTo(PathSegments, MaxParts) }

\* The filesystem root and chip_root are directories; p is absent or an
\* entry of the given kind.
RootDirs == (<<"/">> :> "dir") @@ (chip_root :> "dir")

OneEntryDisk(p, kind) ==
    IF kind = "absent" \/ p \in DOMAIN RootDirs THEN RootDirs
    ELSE (p :> kind) @@ RootDirs

InitValidate ==
    /\ RunIdle
    /\ MainIdle
    /\ ResolveIdle
    /\ v_pc = "input"
    /\ v_resolved \in ValidatePaths
    /\ v_context \in Contexts
    /\ \E kind \in Kinds \cup { "absent" } :
           v_disk = OneEntryDisk(JoinBase(chip_root, v_resolved), kind)
    /\ v_res = [ok |-> FALSE, msg |-> NoMessage]

Validate ==
    /\ v_pc = "input"
    /\ v_res' = validate_path(v_resolved, v_context, chip_root, v_disk)
    /\ v_pc' = "validated"
    /\ UNCHANGED <<v_resolved, v_context, v_disk, resolveVars, runVars, mainVars>>

NextValidate == Validate

SpecValidate == InitValidate /\ [][NextValidate]_vars

(***************************************************************************)
(* Inputs of the resolver specification: expressions built from at most    *)
(* MaxParts segments, binding maps over the names a and b.                 *)
(***************************************************************************)
Segments ==
    { Placeholder(<<"a">>), Placeholder(<<"b">>), <<"/">>, <<"x">>,
      <<"$", "{">>, <<"}">>, <<"$">> }

ResolveExprs == { Concat(ss) : ss \in SeqsUpTo(Segments, MaxParts) }

ResolveNames == { <<"a">>, <<"b">> }

ResolveValues == { <<>>, <<"/">>, <<"x", "/">>, Placeholder(<<"a">>) }

ResolveBindings ==
    UNION { [D -> ResolveValues] : D \in SUBSET ResolveNames }

InitResolve ==
    /\ RunIdle
    /\ MainIdle
    /\ ValidateIdle
    /\ r_pc = "input"
    /\ r_expr \in ResolveExprs
    /\ r_vars \in ResolveBindings
    /\ r_out = [res |-> None, subs |-> 0, out |-> <<>>]
    /\ r_out2 = None

Resolve ==
    /\ r_pc = "input"
    /\ r_out' = resolve_run(r_expr, r_vars)
    /\ r_pc' = "resolved"
    /\ UNCHANGED <<r_expr, r_vars, r_out2, validateVars, runVars, mainVars>>

ReResolve ==
    /\ r_pc = "resolved"
    /\ r_out.res # None
    /\ r_out2' = resolve_path(r_out.res, r_vars)
    /\ r_pc' = "reresolved"
    /\ UNCHANGED <<r_expr, r_vars, r_out, validateVars, runVars, mainVars>>

NextResolve == Resolve \/ ReResolve

SpecResolve == InitResolve /\ [][NextResolve]_vars

(***************************************************************************)
(* Claims about resolve_path, checked under SpecResolve.                   *)
(***************************************************************************)
HasPlaceholderStart(s) == HasSub(s, <<"$", "{">>)

\* C3: resolve_path never returns a partially substituted string: its
\* result is None or a string in which no "${" remains.
C3_NoPartialSubstitution ==
    r_pc # "input" =>
        (r_out.res = None \/ ~HasPlaceholderStart(r_out.res))

\* A resolution that substituted at least once and still ended unresolved.
C3_Witness ==
    /\ r_pc = "resolved"
    /\ r_out.subs >= 1
    /\ r_out.res = None
    /\ \A n \in ResolveNames :
           HasSub(r_expr, Placeholder(n)) => n \in DOMAIN r_vars

\* C4 as stated: re-resolving a successful result with the same bindings
\* returns the same string.
C4_Idempotent ==
    r_pc = "reresolved" => r_out2 = r_out.res

ClaimNames == ResolveNames \cup { <<"x">> }

AbsentPlaceholder(expr, vars_dict) ==
    \E n \in ClaimNames :
        HasSub(expr, Placeholder(n)) /\ n \notin DOMAIN vars_dict

\* C5: an expression that contains a ${name} placeholder whose name is
\* absent from the bindings resolves to None, whatever else it contains.
C5_AbsentNameUnresolved ==
    (r_pc # "input" /\ AbsentPlaceholder(r_expr, r_vars)) => r_out.res = None

\* An absent name behind a placeholder that was substituted first.
C5_Witness ==
    /\ r_pc = "resolved"
    /\ AbsentPlaceholder(r_expr, r_vars)
    /\ r_out.subs >= 1
    /\ r_out.res = None

\* C11: resolve_path returns after at most max_iter (20) replacements, for
\* every expression and bindings, self-referential bindings included; when
\* the bound is reached and the text the loop ended with still holds a
\* "${", the result is None and not a string.
C11_BoundedSubstitutions ==
    r_pc # "input" =>
        /\ r_out.subs <= max_iter
        /\ (r_out.subs = max_iter /\ HasPlaceholderStart(r_out.out)) =>
               r_out.res = None

\* A self-referential binding drives the loop to its bound: max_iter
\* replacements were made, a placeholder remains, the result is None.
C11_Witness ==
    /\ r_pc = "resolved"
    /\ r_out.subs = max_iter
    /\ MatchStart(r_out.out) # 0
    /\ MatchKey(r_out.out, MatchStart(r_out.out)) \in DOMAIN r_vars
    /\ r_out.res = None

(***************************************************************************)
(* Claims about validate_path, checked under SpecValidate.                 *)
(***************************************************************************)
ClaimFileSuffixes ==
    { <<".", "a">>, <<".", "c">>, <<".", "c", "p", "p">>, <<".", "h">>,
      <<".", "S">>, <<".", "h", "p", "p">> }

ExpectedKind(resolved, context) ==
    IF context = "lib" THEN "file"
    ELSE IF context = "include_dir" THEN "dir"
    ELSE IF \E x \in ClaimFileSuffixes : EndsWith(resolved, x) THEN "file"
    ELSE "dir"

KindOnDisk(fs, p) == IF p \in DOMAIN fs THEN fs[p] ELSE "absent"

MismatchTexts ==
    { "expected file, found directory", "expected directory, found file" }

ValidatedAs(res, resolved, context, fs) ==
    LET p == JoinBase(chip_root, resolved)
        kind == KindOnDisk(fs, p)
        expected == ExpectedKind(resolved, context)
    IN  /\ res.ok <=> (kind # "absent" /\ kind = expected)
        /\ kind = "absent" => res.msg = [text |-> "missing", path |-> p]
        /\ (kind # "absent" /\ kind # expected) =>
               (res.msg.text \in MismatchTexts /\ res.msg.path = p)

\* C6 as stated: validate_path succeeds exactly when the path exists and
\* its kind equals the expected kind (file for lib, directory for
\* include_dir, by extension for source); an existing entry of another
\* kind yields a kind-mismatch message, an absent entry "missing: <path>".
C6_SuccessIffExpectedKind ==
    v_pc = "validated" => ValidatedAs(v_res, v_resolved, v_context, v_disk)

\* The same statement for the entries that are regular files or
\* directories; it holds of validate_path.
C6_RegularEntries ==
    (v_pc = "validated"
        /\ KindOnDisk(v_disk, JoinBase(chip_root, v_resolved)) # "other")
    => ValidatedAs(v_res, v_resolved, v_context, v_disk)

(***************************************************************************)
(* extract_path_expressions.  A line of the file is what the function      *)
(* reads of it: which marker texts it contains, and the texts that the     *)
(* pattern of line 100 captures in it (quoted texts that begin with a      *)
(* placeholder), in order.                                                 *)
(***************************************************************************)
RECURSIVE BeforeDoubleSlash(_)
BeforeDoubleSlash(s) ==
    IF s = <<>> \/ StartsWith(s, <<"/", "/">>) THEN <<>>
    ELSE <<s[1]>> \o BeforeDoubleSlash(Tail(s))

RECURSIVE RStrip(_, _)
RStrip(s, ch) ==
    IF s # <<>> /\ s[Len(s)] = ch THEN RStrip(SubSeq(s, 1, Len(s) - 1), ch)
    ELSE s

RECURSIVE LStrip(_, _)
LStrip(s, ch) ==
    IF s # <<>> /\ s[1] = ch THEN LStrip(Tail(s), ch) ELSE s

Strip(s) == LStrip(RStrip(s, " "), " ")

\* Lines 103-105.
CleanRaw(captured) ==
    LET raw == Strip(RStrip(Strip(BeforeDoubleSlash(captured)), ","))
    IN  IF EndsWith(raw, <<"\"">>) THEN SubSeq(raw, 1, Len(raw) - 1) ELSE raw

\* Lines 106-110.
KeepRaw(raw) ==
    /\ HasSub(raw, <<"$", "{">>)
    /\ (HasSub(raw, <<"/">>) \/ EndsWith(raw, <<"}">>))
    /\ ~HasSub(raw, <<":">>)
    /\ ~EndsWith(Strip(raw), <<".", "g", "n", "i">>)

LineContext_resets(line, context) ==
    IF line.include_dirs THEN "include_dir"
    ELSE IF line.libs THEN "lib"
    ELSE "source"

\* Lines 93-98.
LineContext(line, context) ==
    IF line.include_dirs THEN "include_dir"
    ELSE IF line.libs THEN "lib"
    ELSE IF line.sources THEN "source"
    ELSE context

RECURSIVE LineExpressions(_, _)
LineExpressions(quoted, context) ==
    IF quoted = <<>> THEN <<>>
    ELSE LET raw == CleanRaw(Head(quoted)) IN
         (IF KeepRaw(raw) THEN << <<raw, context>> >> ELSE <<>>)
             \o LineExpressions(Tail(quoted), context)

RECURSIVE ExtractFrom(_, _)
ExtractFrom(lines, context) ==
    IF lines = <<>> THEN <<>>
    ELSE LET ctx == LineContext(Head(lines), context) IN
         LineExpressions(Head(lines).quoted, ctx) \o ExtractFrom(Tail(lines), ctx)

\* Lines 84-112.
extract_path_expressions(text) == ExtractFrom(text, "source")

(***************************************************************************)
(* The bindings main passes to run_gni_validation, with the names          *)
(* abbreviated: r is chip_root, w is wifi_sdk_root, b is silabs_board, g   *)
(* is slc_gen_path.  A board combination is the name of its board          *)
(* directory.  env holds the arguments base_vars, board_var_substrings     *)
(* and get_board_vars of one call.                                         *)
(***************************************************************************)
\* The board directories.
Boards == { <<"p">>, <<"q">> }

\* A board directory whose name is itself a placeholder: the bindings it
\* yields bring back a name that nothing binds.
PlaceholderBoard == Placeholder(<<"u">>)

AllBoards == Boards \cup { PlaceholderBoard }

\* Lines 351-363.
efr32_base_vars == (<<"r">> :> chip_root)

\* Lines 373-382.
get_efr32_board_vars(combo) ==
    (<<"b">> :> combo) @@ (<<"g">> :> (chip_root \o <<"/", "g", "/">> \o combo))

\* Lines 384-391.
efr32_board_var_substrings == { Placeholder(<<"b">>), Placeholder(<<"g">>) }

Efr32Env ==
    [base_vars |-> efr32_base_vars,
     board_var_substrings |-> efr32_board_var_substrings,
     get_board_vars |-> [combo \in AllBoards |-> get_efr32_board_vars(combo)]]

\* Lines 429-437.
siwx917_base_vars == (<<"r">> :> chip_root) @@ (<<"w">> :> <<"/", "W">>)

\* Lines 442-444.
get_siwx917_board_vars(combo) == (<<"b">> :> combo)

Siwx917Env ==
    [base_vars |-> siwx917_base_vars,
     board_var_substrings |-> { Placeholder(<<"b">>) },
     get_board_vars |-> [combo \in Boards |-> get_siwx917_board_vars(combo)]]

\* {**base_vars, **get_board_vars(combo)}: the board bindings win.
MergeVars(base, over) == over @@ base

\* Line 233.
has_board_var(raw_expr, env) ==
    \E x \in env.board_var_substrings : HasSub(raw_expr, x)

\* Line 234.
is_slc_gen(raw_expr) ==
    HasSub(raw_expr, Placeholder(<<"g">>)) /\ HasSub(raw_expr, <<"g">>)

(***************************************************************************)
(* The locals of run_gni_validation as one record, and the body of its     *)
(* loop.  calls is the record of the calls of resolve_path and             *)
(* validate_path, in the order the function makes them.                    *)
(***************************************************************************)
Locals ==
    [seen |-> seen, missing |-> missing, checked |-> checked,
     unresolved |-> unresolved, conditional_skipped |-> conditional_skipped,
     calls |-> calls]

InitialLocals ==
    [seen |-> {}, missing |-> <<>>, checked |-> 0, unresolved |-> 0,
     conditional_skipped |-> 0, calls |-> <<>>]

Call(raw_expr, context, combo, resolved, validated, ok) ==
    [raw |-> raw_expr, context |-> context, combo |-> combo,
     resolved |-> resolved, validated |-> validated, ok |-> ok]

MissingForAll == [text |-> "(missing for all board combinations)", path |-> <<>>]

mark_seen_never(st, raw_expr, context) == st

\* Line 231.
mark_seen(st, raw_expr, context) ==
    [st EXCEPT !.seen = @ \cup { <<raw_expr, context>> }]

count_skipped_and_checked(st) ==
    [st EXCEPT !.conditional_skipped = @ + 1, !.checked = @ + 1]

\* Lines 235 and 240.
count_skipped(st) == [st EXCEPT !.conditional_skipped = @ + 1]

board_resolution_failed_continues(st, combos, k) == k < Len(combos)

\* Lines 247-249: a combination that does not resolve ends the search.
board_resolution_failed(st, combos, k) == FALSE

board_validated_continues(st, combos, k, ok) == k < Len(combos)

\* Lines 252-254: the first combination that validates ends the search.
board_validated(st, combos, k, ok) == ~ok /\ k < Len(combos)

\* Lines 244-254: the combinations from the k-th on.  The result carries
\* any_ok and resolved_cond as they are when the loop ends.
RECURSIVE board_search(_, _, _, _, _, _, _)
board_search(st, raw_expr, context, combos, k, fs, env) ==
    LET combo == combos[k]
        resolved_cond ==
            resolve_path(raw_expr, MergeVars(env.base_vars, env.get_board_vars[combo]))
    IN  IF resolved_cond = None
        THEN LET st1 == [st EXCEPT
                            !.unresolved = @ + 1,
                            !.calls = Append(@, Call(raw_expr, context, combo,
                                                     None, FALSE, FALSE))]
             IN  IF board_resolution_failed(st1, combos, k)
                 THEN board_search(st1, raw_expr, context, combos, k + 1, fs, env)
                 ELSE [st |-> st1, any_ok |-> FALSE, resolved_cond |-> None]
        ELSE LET ok == validate_path(resolved_cond, context, chip_root, fs).ok
                 st1 == [st EXCEPT
                            !.checked = @ + 1,
                            !.calls = Append(@, Call(raw_expr, context, combo,
                                                     resolved_cond, TRUE, ok))]
             IN  IF board_validated(st1, combos, k, ok)
                 THEN board_search(st1, raw_expr, context, combos, k + 1, fs, env)
                 ELSE [st |-> st1, any_ok |-> ok, resolved_cond |-> resolved_cond]

check_board_first_only(st, raw_expr, context, combos, fs, env) ==
    LET found == IF combos = <<>>
                 THEN [st |-> st, any_ok |-> FALSE, resolved_cond |-> None]
                 ELSE board_search(st, raw_expr, context, SubSeq(combos, 1, 1),
                                   1, fs, env)
    IN  IF ~found.any_ok /\ found.resolved_cond # None
        THEN [found.st EXCEPT
                 !.missing = Append(@, <<raw_expr, context, MissingForAll>>)]
        ELSE found.st

check_board_ignores_unresolved(st, raw_expr, context, combos, fs, env) ==
    LET found == board_search(st, raw_expr, context, combos, 1, fs, env)
    IN  IF ~found.any_ok
        THEN [found.st EXCEPT
                 !.missing = Append(@, <<raw_expr, context, MissingForAll>>)]
        ELSE found.st

\* Lines 242-257.
check_board(st, raw_expr, context, combos, fs, env) ==
    LET found == IF combos = <<>>
                 THEN [st |-> st, any_ok |-> FALSE, resolved_cond |-> None]
                 ELSE board_search(st, raw_expr, context, combos, 1, fs, env)
    IN  IF ~found.any_ok /\ found.resolved_cond # None
        THEN [found.st EXCEPT
                 !.missing = Append(@, <<raw_expr, context, MissingForAll>>)]
        ELSE found.st

check_plain_unresolved_missing(st, raw_expr, context, fs, env) ==
    LET resolved == resolve_path(raw_expr, env.base_vars)
        done == Call(raw_expr, context, "base", resolved, resolved # None, FALSE)
    IN  IF resolved = None
        THEN [st EXCEPT !.unresolved = @ + 1, !.calls = Append(@, done),
                        !.missing = Append(@, <<raw_expr, context,
                                               [text |-> "missing",
                                                path |-> raw_expr]>>)]
        ELSE LET v == validate_path(resolved, context, chip_root, fs) IN
             [st EXCEPT
                 !.checked = @ + 1,
                 !.calls = Append(@, [done EXCEPT !.ok = v.ok]),
                 !.missing = IF v.ok THEN @
                             ELSE Append(@, <<raw_expr, context, v.msg>>)]

check_plain_unresolved_checked(st, raw_expr, context, fs, env) ==
    LET resolved == resolve_path(raw_expr, env.base_vars)
        done == Call(raw_expr, context, "base", resolved, resolved # None, FALSE)
    IN  IF resolved = None
        THEN [st EXCEPT !.unresolved = @ + 1, !.checked = @ + 1,
                        !.calls = Append(@, done)]
        ELSE LET v == validate_path(resolved, context, chip_root, fs) IN
             [st EXCEPT
                 !.checked = @ + 1,
                 !.calls = Append(@, [done EXCEPT !.ok = v.ok]),
                 !.missing = IF v.ok THEN @
                             ELSE Append(@, <<raw_expr, context, v.msg>>)]

\* Lines 259-266.
check_plain(st, raw_expr, context, fs, env) ==
    LET resolved == resolve_path(raw_expr, env.base_vars)
        done == Call(raw_expr, context, "base", resolved, resolved # None, FALSE)
    IN  IF resolved = None
        THEN [st EXCEPT !.unresolved = @ + 1, !.calls = Append(@, done)]
        ELSE LET v == validate_path(resolved, context, chip_root, fs) IN
             [st EXCEPT
                 !.checked = @ + 1,
                 !.calls = Append(@, [done EXCEPT !.ok = v.ok]),
                 !.missing = IF v.ok THEN @
                             ELSE Append(@, <<raw_expr, context, v.msg>>)]

\* Lines 229-266: one iteration of the loop over the expressions.
loop_body(st, raw_expr, context, combos, slc, cond, fs, env) ==
    IF <<raw_expr, context>> \in st.seen THEN st
    ELSE LET st1 == mark_seen(st, raw_expr, context) IN
         IF slc /\ is_slc_gen(raw_expr) THEN count_skipped(st1)
         ELSE IF has_board_var(raw_expr, env)
              THEN IF cond THEN count_skipped(st1)
                   ELSE check_board(st1, raw_expr, context, combos, fs, env)
              ELSE check_plain(st1, raw_expr, context, fs, env)

RECURSIVE run_loop(_, _, _, _, _, _, _)
run_loop(st, exprs, combos, slc, cond, fs, env) ==
    IF exprs = <<>> THEN st
    ELSE run_loop(loop_body(st, Head(exprs)[1], Head(exprs)[2],
                            combos, slc, cond, fs, env),
                  Tail(exprs), combos, slc, cond, fs, env)

\* Lines 207-268: the whole call, as main makes it.
run_gni_validation(text, env, combos, fs, slc, cond) ==
    LET st == run_loop(InitialLocals, extract_path_expressions(text),
                       combos, slc, cond, fs, env)
    IN  [missing |-> st.missing, checked |-> st.checked,
         unresolved |-> st.unresolved,
         conditional_skipped |-> st.conditional_skipped]

(***************************************************************************)
(* Inputs of the driver specification.                                     *)
(***************************************************************************)
MaxLines == 2
MaxCombos == 2

Line(inc, lib, src, quoted) ==
    [include_dirs |-> inc, libs |-> lib, sources |-> src, quoted |-> quoted]

PlainRaw == Placeholder(<<"r">>) \o <<"/", "p", "/", "f", ".", "c">>
BoardRaw == Placeholder(<<"b">>) \o <<"/", "f", ".", "c">>
UnknownRaw == Placeholder(<<"u">>) \o <<"/", "d">>
BoardUnknownRaw == Placeholder(<<"b">>) \o <<"/">> \o Placeholder(<<"u">>)
SlcGenRaw == Placeholder(<<"g">>)

DriverLines ==
    { Line(TRUE, FALSE, FALSE, <<PlainRaw>>),
      Line(FALSE, TRUE, FALSE, <<BoardRaw>>),
      Line(FALSE, FALSE, TRUE, <<UnknownRaw>>),
      Line(FALSE, FALSE, FALSE, <<BoardUnknownRaw>>),
      Line(FALSE, FALSE, FALSE, <<SlcGenRaw>>) }

ComboLists == UNION { [1..k -> Boards] : k \in 1..MaxCombos }

PathP == chip_root \o <<"/", "p", "/", "f", ".", "c">>
PathQ == chip_root \o <<"/", "q", "/", "f", ".", "c">>

DriverDisks ==
    { OneEntryDisk(PathP, kp) @@ OneEntryDisk(PathQ, kq) :
          kp \in Kinds \cup { "absent" }, kq \in { "absent", "file" } }

Init ==
    /\ MainIdle
    /\ ResolveIdle
    /\ ValidateIdle
    /\ pc = "start"
    /\ content \in SeqsUpTo(DriverLines, MaxLines)
    /\ board_combos \in ComboLists
    /\ skip_slc_gen \in BOOLEAN
    /\ skip_conditional \in BOOLEAN
    /\ disk \in DriverDisks
    /\ expressions = <<>>
    /\ idx = 0
    /\ seen = {}
    /\ missing = <<>>
    /\ checked = 0
    /\ unresolved = 0
    /\ conditional_skipped = 0
    /\ calls = <<>>

SetLocals(st) ==
    /\ seen' = st.seen
    /\ missing' = st.missing
    /\ checked' = st.checked
    /\ unresolved' = st.unresolved
    /\ conditional_skipped' = st.conditional_skipped
    /\ calls' = st.calls

\* Lines 221-226.
Extract ==
    /\ pc = "start"
    /\ expressions' = extract_path_expressions(content)
    /\ idx' = 1
    /\ SetLocals(InitialLocals)
    /\ pc' = "loop"
    /\ UNCHANGED <<runInputs, resolveVars, validateVars, mainVars>>

AtExpression == pc = "loop" /\ idx <= Len(expressions)

Iterate ==
    /\ AtExpression
    /\ SetLocals(loop_body(Locals, expressions[idx][1], expressions[idx][2],
                           board_combos, skip_slc_gen, skip_conditional, disk,
                           Efr32Env))
    /\ idx' = idx + 1
    /\ UNCHANGED <<runInputs, expressions, pc, resolveVars, validateVars, mainVars>>

\* Lines 229-230.
SkipSeen ==
    /\ AtExpression
    /\ expressions[idx] \in seen
    /\ Iterate

\* Lines 234-236.
SkipSlcGen ==
    /\ AtExpression
    /\ expressions[idx] \notin seen
    /\ skip_slc_gen /\ is_slc_gen(expressions[idx][1])
    /\ Iterate

\* Lines 238-241.
SkipConditional ==
    /\ AtExpression
    /\ expressions[idx] \notin seen
    /\ ~(skip_slc_gen /\ is_slc_gen(expressions[idx][1]))
    /\ has_board_var(expressions[idx][1], Efr32Env) /\ skip_conditional
    /\ Iterate

\* Lines 242-257.
CheckBoard ==
    /\ AtExpression
    /\ expressions[idx] \notin seen
    /\ ~(skip_slc_gen /\ is_slc_gen(expressions[idx][1]))
    /\ has_board_var(expressions[idx][1], Efr32Env) /\ ~skip_conditional
    /\ Iterate

\* Lines 259-266.
CheckPlain ==
    /\ AtExpression
    /\ expressions[idx] \notin seen
    /\ ~(skip_slc_gen /\ is_slc_gen(expressions[idx][1]))
    /\ ~has_board_var(expressions[idx][1], Efr32Env)
    /\ Iterate

\* Line 268.
Return ==
    /\ pc = "loop"
    /\ idx > Len(expressions)
    /\ pc' = "done"
    /\ UNCHANGED <<runInputs, runLocals, resolveVars, validateVars, mainVars>>

Next ==
    \/ Extract
    \/ SkipSeen
    \/ SkipSlcGen
    \/ SkipConditional
    \/ CheckBoard
    \/ CheckPlain
    \/ Return

Spec == Init /\ [][Next]_vars

(***************************************************************************)
(* main, from the test of the primary file on (lines 393-508).  What main  *)
(* reads from disk at a step is chosen at that step: the text of a .gni    *)
(* file and the board directories that discovery lists.                    *)
(***************************************************************************)
\* Lines 367-371 and 440: the lists used when discovery finds no board.
efr32_fallback_combos == << <<"p">>, <<"q">> >>
siwx917_fallback_boards == << <<"q">>, <<"p">> >>

OrFallback(discovered, fallback) ==
    IF discovered = <<>> THEN fallback ELSE discovered

DiscoveredLists == { <<>>, << <<"q">> >>, << <<"q">>, <<"p">> >> }

Efr32Lines ==
    { Line(TRUE, FALSE, FALSE, <<PlainRaw>>),
      Line(FALSE, TRUE, FALSE, <<BoardRaw>>),
      Line(FALSE, FALSE, FALSE, <<UnknownRaw>>),
      Line(FALSE, FALSE, FALSE, <<SlcGenRaw>>) }

Efr32Texts == SeqsUpTo(Efr32Lines, MaxLines)

Siwx917Lines ==
    { Line(TRUE, FALSE, FALSE, <<PlainRaw>>),
      Line(FALSE, FALSE, FALSE, <<BoardRaw>>),
      Line(FALSE, FALSE, FALSE, <<UnknownRaw>>) }

Siwx917Texts == SeqsUpTo(Siwx917Lines, MaxLines)

\* Lines 414-415 and 457-458.
RECURSIVE Tagged(_, _)
Tagged(gni_name, found) ==
    IF found = <<>> THEN <<>>
    ELSE << <<gni_name, Head(found)[1], Head(found)[2], Head(found)[3]>> >>
             \o Tagged(gni_name, Tail(found))

FromGni(found, gni_name) == SelectSeq(found, LAMBDA e : e[1] = gni_name)

has_findings_or_unresolved(found, n_unresolved) ==
    found # <<>> \/ n_unresolved > 0

\* Line 473: `if all_missing:`.
has_findings(found, n_unresolved) == found # <<>>

InitMain ==
    /\ ResolveIdle
    /\ ValidateIdle
    /\ pc = "idle"
    /\ content = <<>>
    /\ board_combos = <<>>
    /\ skip_slc_gen \in BOOLEAN
    /\ skip_conditional \in BOOLEAN
    /\ disk \in DriverDisks
    /\ expressions = <<>>
    /\ idx = 0
    /\ seen = {}
    /\ missing = <<>>
    /\ checked = 0
    /\ unresolved = 0
    /\ conditional_skipped = 0
    /\ calls = <<>>
    /\ m_pc = "start"
    /\ gni_exists \in BOOLEAN
    /\ siwx917_exists \in BOOLEAN
    /\ no_siwx917 \in BOOLEAN
    /\ wifi_sdk_root \in BOOLEAN
    /\ all_missing = <<>>
    /\ total_checked = 0
    /\ total_unresolved = 0
    /\ total_conditional_skipped = 0
    /\ runs = <<>>
    /\ reports = {}
    /\ exit_status = 0

MainFrame == UNCHANGED <<runVars, mainInputs, resolveVars, validateVars>>

Accumulate(gni_name, res) ==
    /\ all_missing' = all_missing \o Tagged(gni_name, res.missing)
    /\ total_checked' = total_checked + res.checked
    /\ total_unresolved' = total_unresolved + res.unresolved
    /\ total_conditional_skipped' =
           total_conditional_skipped + res.conditional_skipped
    /\ runs' = Append(runs, [gni |-> gni_name, missing |-> res.missing,
                             unresolved |-> res.unresolved,
                             conditional_skipped |-> res.conditional_skipped])

\* Lines 398-401.
GniNotFound ==
    /\ m_pc = "start"
    /\ ~gni_exists
    /\ exit_status' = 1
    /\ m_pc' = "exit"
    /\ UNCHANGED <<all_missing, total_checked, total_unresolved,
                   total_conditional_skipped, runs, reports>>
    /\ MainFrame

\* Lines 365-371 and 403-418.
ValidateEfr32 ==
    /\ m_pc = "start"
    /\ gni_exists
    /\ \E text \in Efr32Texts, discovered \in DiscoveredLists :
           Accumulate("efr32_sdk.gni",
                      run_gni_validation(
                          text, Efr32Env,
                          OrFallback(discovered, efr32_fallback_combos),
                          disk, skip_slc_gen, skip_conditional))
    /\ m_pc' = "siwx917"
    /\ UNCHANGED <<reports, exit_status>>
    /\ MainFrame

\* Lines 420-461.
ValidateSiwx917 ==
    /\ m_pc = "siwx917"
    /\ ~no_siwx917 /\ wifi_sdk_root
    /\ siwx917_exists
    /\ \E text \in Siwx917Texts, discovered \in DiscoveredLists :
           Accumulate("SiWx917_sdk.gni",
                      run_gni_validation(
                          text, Siwx917Env,
                          OrFallback(discovered, siwx917_fallback_boards),
                          disk, skip_slc_gen, skip_conditional))
    /\ m_pc' = "report"
    /\ UNCHANGED <<reports, exit_status>>
    /\ MainFrame

\* Lines 462-463.
Siwx917NotFound ==
    /\ m_pc = "siwx917"
    /\ ~no_siwx917 /\ wifi_sdk_root
    /\ ~siwx917_exists
    /\ m_pc' = "report"
    /\ UNCHANGED mainLocals
    /\ MainFrame

\* Lines 464-465.
Siwx917NoWifiRoot ==
    /\ m_pc = "siwx917"
    /\ ~no_siwx917 /\ ~wifi_sdk_root
    /\ m_pc' = "report"
    /\ UNCHANGED mainLocals
    /\ MainFrame

\* Lines 420 and 464: --no-siwx917 takes neither branch.
Siwx917Disabled ==
    /\ m_pc = "siwx917"
    /\ no_siwx917
    /\ m_pc' = "report"
    /\ UNCHANGED mainLocals
    /\ MainFrame

\* Lines 473-506.
ReportMissing ==
    /\ m_pc = "report"
    /\ has_findings(all_missing, total_unresolved)
    /\ reports' =
           { f \in { "path_not_found", "path_not_found_siwx917" } :
                 \/ f = "path_not_found"
                        /\ FromGni(all_missing, "efr32_sdk.gni") # <<>>
                 \/ f = "path_not_found_siwx917"
                        /\ FromGni(all_missing, "SiWx917_sdk.gni") # <<>> }
    /\ exit_status' = 1
    /\ m_pc' = "exit"
    /\ UNCHANGED <<all_missing, total_checked, total_unresolved,
                   total_conditional_skipped, runs>>
    /\ MainFrame

\* Lines 507-508.
AllPathsExist ==
    /\ m_pc = "report"
    /\ ~has_findings(all_missing, total_unresolved)
    /\ exit_status' = 0
    /\ m_pc' = "exit"
    /\ UNCHANGED <<all_missing, total_checked, total_unresolved,
                   total_conditional_skipped, runs, reports>>
    /\ MainFrame

NextMain ==
    \/ GniNotFound
    \/ ValidateEfr32
    \/ ValidateSiwx917
    \/ Siwx917NotFound
    \/ Siwx917NoWifiRoot
    \/ Siwx917Disabled
    \/ ReportMissing
    \/ AllPathsExist

SpecMain == InitMain /\ [][NextMain]_vars

(***************************************************************************)
(* Claims about main, checked under SpecMain.                              *)
(***************************************************************************)
SomeRunFoundMissing == \E i \in DOMAIN runs : runs[i].missing # <<>>

\* C9: main exits non-zero exactly when the primary file is absent or some
\* validated file has a missing or invalid path; with the primary file
\* absent nothing is extracted, validated or written; unresolved and
\* skipped expressions do not change the exit status.
C9_ExitStatus ==
    /\ ~gni_exists => (runs = <<>> /\ reports = {})
    /\ m_pc = "exit" =>
           (exit_status # 0 <=> (~gni_exists \/ SomeRunFoundMissing))

\* Both files were validated, expressions were left unresolved and skipped,
\* no path was missing, and main exits with 0.
C9_Witness ==
    /\ m_pc = "exit"
    /\ Len(runs) = 2
    /\ \A i \in DOMAIN runs : runs[i].unresolved > 0
    /\ total_conditional_skipped > 0
    /\ exit_status = 0

(***************************************************************************)
(* Claims about run_gni_validation, checked under Spec.                    *)
(***************************************************************************)
CurrentRaw == expressions[idx][1]
CurrentContext == expressions[idx][2]

FirstOccurrence ==
    AtExpression /\ \A j \in 1..(idx - 1) : expressions[j] # expressions[idx]

LaterOccurrence ==
    AtExpression /\ \E j \in 1..(idx - 1) : expressions[j] = expressions[idx]

BoardDependent(raw) ==
    HasSub(raw, Placeholder(<<"b">>)) \/ HasSub(raw, Placeholder(<<"g">>))

IsSkipped(raw) ==
    \/ skip_slc_gen /\ HasSub(raw, Placeholder(<<"g">>))
    \/ skip_conditional /\ BoardDependent(raw)

ComboResolved(raw, k) ==
    resolve_path(raw, MergeVars(efr32_base_vars, get_efr32_board_vars(board_combos[k])))

ComboResolves(raw, k) == ComboResolved(raw, k) # None

ComboValidates(raw, context, k) ==
    /\ ComboResolves(raw, k)
    /\ validate_path(ComboResolved(raw, k), context, chip_root, disk).ok

MissingEntries(raw, context) ==
    { i \in DOMAIN missing : missing[i][1] = raw /\ missing[i][2] = context }

MissingForAllOnce(raw, context) ==
    /\ Cardinality(MissingEntries(raw, context)) = 1
    /\ \A i \in MissingEntries(raw, context) : missing[i][3] = MissingForAll

BoardPairs ==
    { e \in { expressions[i] : i \in DOMAIN expressions } :
          BoardDependent(e[1]) /\ ~IsSkipped(e[1]) }

\* C1 as stated: a board-dependent expression that is not skipped is absent
\* from the missing list if some combination validates, and is in it exactly
\* once, as missing for all combinations, if none does.
C1_MissingIffNoComboValidates ==
    pc = "done" =>
        \A e \in BoardPairs :
            IF \E k \in DOMAIN board_combos : ComboValidates(e[1], e[2], k)
            THEN MissingEntries(e[1], e[2]) = {}
            ELSE MissingForAllOnce(e[1], e[2])

\* C1 amended: absent from the missing list if some combination validates
\* or some combination does not resolve; in it exactly once, as missing for
\* all combinations, if every combination resolves and none validates.
C1_MissingIffAllResolveNoneValidates ==
    pc = "done" =>
        \A e \in BoardPairs :
            IF \E k \in DOMAIN board_combos : ComboValidates(e[1], e[2], k)
            THEN MissingEntries(e[1], e[2]) = {}
            ELSE IF \A k \in DOMAIN board_combos : ComboResolves(e[1], k)
            THEN MissingForAllOnce(e[1], e[2])
            ELSE MissingEntries(e[1], e[2]) = {}

\* Two combinations were tried for one expression, both resolved, neither
\* validated, and the expression is reported once.
C1_Witness ==
    /\ pc = "done"
    /\ Len(board_combos) = 2
    /\ board_combos[1] # board_combos[2]
    /\ \E e \in BoardPairs :
           /\ \A k \in DOMAIN board_combos : ComboResolves(e[1], k)
           /\ \A k \in DOMAIN board_combos : ~ComboValidates(e[1], e[2], k)
           /\ MissingForAllOnce(e[1], e[2])

\* C2: an occurrence of a (raw, context) pair after its first one changes
\* neither the counters, nor the missing list, nor the calls made: the pair
\* is resolved and validated for its first occurrence only.
C2_LaterOccurrencesChangeNothing ==
    [][LaterOccurrence =>
           UNCHANGED <<seen, missing, checked, unresolved,
                       conditional_skipped, calls>>]_vars

\* The loop has passed a second occurrence of a pair whose first occurrence
\* was validated.
C2_Witness ==
    /\ pc = "done"
    /\ \E i, j \in DOMAIN expressions : i < j /\ expressions[i] = expressions[j]
    /\ checked = 1
    /\ Len(calls) = 1

\* The first combination, in list order, that ends the search: one that
\* does not resolve or one that validates; the last one if there is none.
StopIndex(raw, context) ==
    LET stops == { k \in DOMAIN board_combos :
                       ~ComboResolves(raw, k) \/ ComboValidates(raw, context, k) }
    IN  IF stops = {} THEN Len(board_combos)
        ELSE CHOOSE k \in stops : \A m \in stops : k <= m

BoardStep ==
    FirstOccurrence /\ BoardDependent(CurrentRaw) /\ ~IsSkipped(CurrentRaw)

\* The calls added by the step are for the first t combinations, in order.
TriedInOrder(t) ==
    /\ Len(calls') = Len(calls) + t
    /\ SubSeq(calls', 1, Len(calls)) = calls
    /\ \A k \in 1..t :
           /\ calls'[Len(calls) + k].raw = CurrentRaw
           /\ calls'[Len(calls) + k].context = CurrentContext
           /\ calls'[Len(calls) + k].combo = board_combos[k]

\* The first combination, in list order, that validates; the last one if
\* none does.
FirstSuccessIndex(raw, context) ==
    LET wins == { k \in DOMAIN board_combos : ComboValidates(raw, context, k) }
    IN  IF wins = {} THEN Len(board_combos)
        ELSE CHOOSE k \in wins : \A m \in wins : k <= m

\* C7 as stated: the combinations are tried in list order up to the first
\* one that validates, none after it, and checked grows by the number of
\* combinations tried.
C7_CheckedCountsTried ==
    [][BoardStep =>
           LET s == FirstSuccessIndex(CurrentRaw, CurrentContext)
           IN  TriedInOrder(s) /\ checked' = checked + s]_vars

\* C7 amended: the combinations are tried in list order up to the first one
\* that validates or fails to resolve, none after it, and checked grows by
\* the number of combinations tried that resolved (k when the k-th is the
\* first success).
C7_CheckedCountsValidated ==
    [][BoardStep =>
           LET t == StopIndex(CurrentRaw, CurrentContext)
           IN  /\ TriedInOrder(t)
               /\ checked' = checked +
                      (IF ComboResolves(CurrentRaw, t) THEN t ELSE t - 1)
               /\ \A k \in 1..t :
                      calls'[Len(calls) + k].validated = ComboResolves(CurrentRaw, k)]_vars

\* The second of two combinations was the first success: two calls, checked
\* is 2, nothing missing.
C7_Witness ==
    /\ pc = "done"
    /\ Len(expressions) = 1
    /\ BoardPairs # {}
    /\ Len(board_combos) = 2
    /\ board_combos[1] # board_combos[2]
    /\ Len(calls) = 2
    /\ ~calls[1].ok /\ calls[2].ok
    /\ checked = 2
    /\ missing = <<>>

\* C8: with skip_conditional set, the first occurrence of an expression
\* that references a board variable adds 1 to the skipped counter and
\* leaves checked, unresolved, the missing list and the calls unchanged.
C8_SkipConditionalOnlyCountsSkipped ==
    [][(FirstOccurrence /\ skip_conditional /\ BoardDependent(CurrentRaw)) =>
           /\ conditional_skipped' = conditional_skipped + 1
           /\ UNCHANGED <<checked, unresolved, missing, calls>>]_vars

\* A run with only skip_conditional set that skipped a board expression.
C8_Witness ==
    /\ pc = "done"
    /\ skip_conditional /\ ~skip_slc_gen
    /\ \E i \in DOMAIN expressions : BoardDependent(expressions[i][1])
    /\ conditional_skipped >= 1

\* C10: the first occurrence of an expression that is not board-dependent
\* is resolved once against the base bindings: unresolved grows by 1 and
\* nothing else changes if that fails; otherwise checked grows by 1 and the
\* expression joins the missing list exactly when validate_path fails, with
\* its context and validate_path's message.
C10_PlainResolvedOnce ==
    [][(FirstOccurrence /\ ~BoardDependent(CurrentRaw)) =>
           LET resolved == resolve_path(CurrentRaw, efr32_base_vars)
               v == validate_path(resolved, CurrentContext, chip_root, disk)
           IN  /\ Len(calls') = Len(calls) + 1
               /\ calls'[Len(calls')].combo = "base"
               /\ calls'[Len(calls')].raw = CurrentRaw
               /\ conditional_skipped' = conditional_skipped
               /\ IF resolved = None
                  THEN /\ unresolved' = unresolved + 1
                       /\ UNCHANGED <<checked, missing>>
                  ELSE /\ checked' = checked + 1
                       /\ unresolved' = unresolved
                       /\ missing' =
                              IF v.ok THEN missing
                              ELSE Append(missing,
                                          <<CurrentRaw, CurrentContext, v.msg>>)]_vars

\* Scenario 2: an include_dir expression whose resolved path is absent is
\* reported as missing, with the resolved path.
C10_Witness ==
    /\ pc = "done"
    /\ checked = 1
    /\ missing = << <<PlainRaw, "include_dir", [text |-> "missing", path |-> PathP]>> >>

\* The search of the step reached a combination that does not resolve.
ResolutionFails(raw, context) == ~ComboResolves(raw, StopIndex(raw, context))

\* C12: when resolution fails for a combination during the search for a
\* board-dependent expression, unresolved grows by exactly 1, no later
\* combination is tried and the missing list is unchanged, whatever the
\* earlier combinations did; the step adds a missing-for-all entry only
\* when every combination resolved and none validated.
C12_ResolutionFailureEndsSearch ==
    [][BoardStep =>
           /\ ResolutionFails(CurrentRaw, CurrentContext) =>
                  /\ unresolved' = unresolved + 1
                  /\ TriedInOrder(StopIndex(CurrentRaw, CurrentContext))
                  /\ calls'[Len(calls')].resolved = None
                  /\ missing' = missing
           /\ missing' # missing =>
                  /\ missing' = Append(missing, <<CurrentRaw, CurrentContext,
                                                  MissingForAll>>)
                  /\ \A k \in DOMAIN board_combos :
                         /\ ComboResolves(CurrentRaw, k)
                         /\ ~ComboValidates(CurrentRaw, CurrentContext, k)]_vars

\* The first combination resolved and failed validation, the second did not
\* resolve: one validation, one unresolved, nothing missing.
C12_Witness ==
    /\ pc = "done"
    /\ Len(expressions) = 1
    /\ BoardPairs # {}
    /\ Len(board_combos) = 2
    /\ Len(calls) = 2
    /\ calls[1].validated /\ ~calls[1].ok
    /\ calls[2].resolved = None
    /\ checked = 1
    /\ unresolved = 1
    /\ missing = <<>>

(***************************************************************************)
(* extract_path_expressions on files of up to MaxLines + 1 lines: lines    *)
(* with and without markers, with no, one or two captured texts, one of    *)
(* which line 109 drops.                                                   *)
(***************************************************************************)
GniRaw == Placeholder(<<"r">>) \o <<"/", "x", ".", "g", "n", "i">>

ExtractMarkers ==
    { <<FALSE, FALSE, FALSE>>, <<TRUE, FALSE, FALSE>>, <<FALSE, TRUE, FALSE>>,
      <<FALSE, FALSE, TRUE>>, <<FALSE, TRUE, TRUE>>, <<TRUE, TRUE, FALSE>> }

ExtractQuoted == { <<>>, <<PlainRaw>>, <<GniRaw, BoardRaw>> }

ExtractLines ==
    { Line(mk[1], mk[2], mk[3], quoted) :
          mk \in ExtractMarkers, quoted \in ExtractQuoted }

InitExtract ==
    /\ MainIdle
    /\ ResolveIdle
    /\ ValidateIdle
    /\ pc = "start"
    /\ content \in SeqsUpTo(ExtractLines, MaxLines + 1)
    /\ board_combos = <<>>
    /\ skip_slc_gen = FALSE
    /\ skip_conditional = FALSE
    /\ disk = RootDirs
    /\ expressions = <<>>
    /\ idx = 0
    /\ seen = {}
    /\ missing = <<>>
    /\ checked = 0
    /\ unresolved = 0
    /\ conditional_skipped = 0
    /\ calls = <<>>

NextExtract == Extract

SpecExtract == InitExtract /\ [][NextExtract]_vars

HasMarker(line) == line.include_dirs \/ line.libs \/ line.sources

\* The lines at or before the n-th that contain a marker.
MarkerLinesUpTo(lines, n) == { k \in 1..n : HasMarker(lines[k]) }

\* The context the most recent marker line at or before the n-th sets, and
\* "source" when there is none.
StickyContext(lines, n) ==
    LET ms == MarkerLinesUpTo(lines, n)
    IN  IF ms = {} THEN "source"
        ELSE LineContext(lines[CHOOSE k \in ms : \A m \in ms : m <= k], "source")

\* The texts of one line that are emitted, in order.
EmittedRaws(line) ==
    SelectSeq([i \in DOMAIN line.quoted |-> CleanRaw(line.quoted[i])], KeepRaw)

\* Every emitted text of every line, in order, with the sticky context of
\* its line.
RECURSIVE StickyFrom(_, _)
StickyFrom(lines, n) ==
    IF n > Len(lines) THEN <<>>
    ELSE [i \in DOMAIN EmittedRaws(lines[n]) |->
              <<EmittedRaws(lines[n])[i], StickyContext(lines, n)>>]
             \o StickyFrom(lines, n + 1)

\* C13: the context of every emitted expression is the one set by the most
\* recent line, at or before the expression's own line, that contains a
\* marker, and "source" if there is no such line; a line without a marker
\* leaves the context as it was.
C13_StickyContext ==
    pc = "loop" => expressions = StickyFrom(content, 1)

\* A marker line that sets a context other than "source", then a line
\* without a marker and without an emitted text, then a line without a
\* marker whose expression carries the context of the first line.
C13_Witness ==
    /\ pc = "loop"
    /\ Len(content) = 3
    /\ HasMarker(content[1]) /\ ~HasMarker(content[2]) /\ ~HasMarker(content[3])
    /\ EmittedRaws(content[1]) = <<>>
    /\ EmittedRaws(content[2]) = <<>>
    /\ Len(expressions) = 1
    /\ expressions[1][2] = "lib"

\* The paths an expression resolves to: under the base bindings, or under
\* the bindings of each listed combination that resolves it.
ResolvedPaths(raw) ==
    IF BoardDependent(raw)
    THEN { ComboResolved(raw, k) : k \in DOMAIN board_combos } \ { None }
    ELSE { resolve_path(raw, efr32_base_vars) } \ { None }

\* A regular file where a directory is expected, or the reverse.
ExistsWithWrongKind(resolved, context) ==
    LET kind == KindOnDisk(disk, JoinBase(chip_root, resolved))
    IN  kind \in { "file", "dir" } /\ kind # ExpectedKind(resolved, context)

SaysMissing(msg) == msg.text \in { "missing", MissingForAll.text }

Distinguishable(entry) ==
    LET paths == ResolvedPaths(entry[1]) IN
    /\ (\E r \in paths : ExistsWithWrongKind(r, entry[2])) =>
           entry[3].text \in MismatchTexts
    /\ SaysMissing(entry[3]) =>
           \A r \in paths : KindOnDisk(disk, JoinBase(chip_root, r)) = "absent"

\* C14 as stated: in the returned missing list an entry whose resolved path
\* exists with the wrong kind carries a kind-mismatch message, and an entry
\* whose message says missing has no resolved path that exists; for
\* board-dependent and base-binding expressions alike.
C14_FailuresDistinguishable ==
    pc = "done" => \A i \in DOMAIN missing : Distinguishable(missing[i])

\* The same statement for the entries of expressions resolved under the
\* base bindings; it holds of run_gni_validation.
C14_BaseBindingEntries ==
    pc = "done" =>
        \A i \in DOMAIN missing :
            ~BoardDependent(missing[i][1]) => Distinguishable(missing[i])

(***************************************************************************)
(* run_gni_validation on lists of two or more combinations, one of which   *)
(* may be the board that does not resolve: the specification of the        *)
(* claims about a resolution failure after a first combination (C12) and   *)
(* about the orders of one list (C15).                                     *)
(***************************************************************************)
OrderLines ==
    { Line(TRUE, FALSE, FALSE, <<PlainRaw>>),
      Line(FALSE, TRUE, FALSE, <<BoardRaw>>),
      Line(FALSE, FALSE, FALSE, <<SlcGenRaw>>) }

\* Lists of two to MaxCombos boards, each board once as a directory
\* listing gives them.
OrderComboLists ==
    { cs \in UNION { [1..k -> AllBoards] : k \in 2..MaxCombos } :
          \A i, j \in DOMAIN cs : cs[i] = cs[j] => i = j }

InitOrder ==
    /\ MainIdle
    /\ ResolveIdle
    /\ ValidateIdle
    /\ pc = "start"
    /\ content \in SeqsUpTo(OrderLines, MaxLines)
    /\ board_combos \in OrderComboLists
    /\ skip_slc_gen \in BOOLEAN
    /\ skip_conditional \in BOOLEAN
    /\ disk \in DriverDisks
    /\ expressions = <<>>
    /\ idx = 0
    /\ seen = {}
    /\ missing = <<>>
    /\ checked = 0
    /\ unresolved = 0
    /\ conditional_skipped = 0
    /\ calls = <<>>

SpecOrder == InitOrder /\ [][Next]_vars

\* The orders of a list of combinations.
Reorderings(combos) ==
    { [i \in DOMAIN combos |-> combos[f[i]]] : f \in Permutations(DOMAIN combos) }

\* What the call returns for the same content, flags and disk with the
\* combinations in another order.
Reordered(combos) ==
    run_gni_validation(content, Efr32Env, combos, disk, skip_slc_gen,
                       skip_conditional)

\* C15: the returned missing list is the same for every order of the same
\* board combinations, content, bindings, flags and disk being equal; the
\* counters checked and unresolved may differ.
C15_MissingOrderIndependent ==
    pc = "done" =>
        \A combos \in Reorderings(board_combos) :
            Reordered(combos).missing = missing

\* A run that reported an expression as missing for all combinations, and
\* another order of its combinations that returns the same list with
\* another value of checked and another value of unresolved.
C15_Witness ==
    /\ pc = "done"
    /\ \E i \in DOMAIN missing : missing[i][3] = MissingForAll
    /\ \E combos \in Reorderings(board_combos) :
           /\ combos # board_combos
           /\ Reordered(combos).missing = missing
           /\ Reordered(combos).checked # checked
    /\ unresolved = 0

\* Two orders of the same combinations that differ in unresolved: the
\* combination that does not resolve comes before or after the one that
\* validates.
C15_UnresolvedDiffers ==
    /\ pc = "done"
    /\ \E combos \in Reorderings(board_combos) :
           /\ Reordered(combos).missing = missing
           /\ Reordered(combos).unresolved # unresolved

\* The distinct (raw, context) pairs that were extracted.
DistinctPairs == { expressions[i] : i \in DOMAIN expressions }

\* C16: when run_gni_validation returns, no (raw, context) pair is twice
\* in the missing list, conditional_skipped + unresolved + len(missing) is
\* at most the number of distinct extracted pairs, and len(missing) is at
\* most checked.
C16_OneOutcomePerPair ==
    pc = "done" =>
        /\ \A i, j \in DOMAIN missing :
               (missing[i][1] = missing[j][1] /\ missing[i][2] = missing[j][2])
                   => i = j
        /\ conditional_skipped + unresolved + Len(missing)
               <= Cardinality(DistinctPairs)
        /\ Len(missing) <= checked

\* Two distinct pairs, one unresolved and the other missing after its only
\* validation: the outcomes add up to the number of pairs.
C16_Witness ==
    /\ pc = "done"
    /\ Cardinality(DistinctPairs) = 2
    /\ unresolved >= 1
    /\ Len(missing) >= 1
    /\ conditional_skipped + unresolved + Len(missing) = Cardinality(DistinctPairs)
    /\ Len(missing) = checked

====
